---------------------------- MODULE Spec2Model ----------------------------
(***************************************************************************)
(* Mississippi Timber Price Report (src/app.py): a Streamlit script.       *)
(* Every user interaction re-runs the whole script top to bottom, so each  *)
(* action below is one interaction followed by one complete script run.    *)
(*                                                                         *)
(* Text is modelled as a sequence of character codes (code points), so     *)
(* that Python's string order and numeric parsing are computed, not        *)
(* assumed.  A multiselect's list is modelled as a set: the script only    *)
(* tests it for emptiness and membership.                                  *)
(***************************************************************************)
EXTENDS Integers, Sequences, FiniteSets, TLC

VARIABLES
    remote,         \* the world: what GITHUB_RAW_URL would answer
    cache,          \* st.cache_data's memo of load_stumpage(): None or <<frame>>
    body_runs,      \* how many times the body of load_stumpage has executed
    cache_hit,      \* whether the last script run took load_stumpage's value from the memo
    widgets,        \* what the front end holds for the radio, the multiselects, the slider
    session_state,  \* st.session_state: None, or <<the three keys "Clear All" sets>>
    run             \* everything the last script run computed and displayed

vars == <<remote, cache, body_runs, cache_hit, widgets, session_state, run>>

(***************************************************************************)
(* Bounds of the model.                                                    *)
(***************************************************************************)
MaxRows == 2        \* rows of the remote CSV

(***************************************************************************)
(* Python values.                                                          *)
(***************************************************************************)
None == << >>
Some(x) == <<x>>
Get(o) == o[1]

Range(s) == {s[i] : i \in 1..Len(s)}

\* str < str : code point by code point, a proper prefix first.
RECURSIVE StrLess(_, _)
StrLess(a, b) ==
    IF a = << >> THEN b # << >>
    ELSE IF b = << >> THEN FALSE
    ELSE IF Head(a) < Head(b) THEN TRUE
    ELSE IF Head(a) > Head(b) THEN FALSE
    ELSE StrLess(Tail(a), Tail(b))

\* sorted(S) for a set of strings.
RECURSIVE Sorted(_)
Sorted(S) ==
    IF S = {} THEN << >>
    ELSE LET m == CHOOSE x \in S : \A y \in S : y = x \/ StrLess(x, y)
         IN  <<m>> \o Sorted(S \ {m})

\* A float: NaN or a number.
NaN == [nan |-> TRUE, val |-> 0]
Num(n) == [nan |-> FALSE, val |-> n]

IsDigit(c) == c \in 48..57

RECURSIVE DecimalValue(_)
DecimalValue(s) ==
    IF s = << >> THEN 0
    ELSE 10 * DecimalValue(SubSeq(s, 1, Len(s) - 1)) + (s[Len(s)] - 48)

\* pd.to_numeric(cell, errors="coerce") on a text cell: a string of digits is
\* its number, anything else is NaN.
ToNumeric(cell) ==
    IF cell # << >> /\ \A i \in 1..Len(cell) : IsDigit(cell[i])
    THEN Num(DecimalValue(cell))
    ELSE NaN

(***************************************************************************)
(* Program constants.                                                      *)
(***************************************************************************)
type_order ==
    << "Pine Sawtimber", "Mixed Hardwood Sawtimber", "Pine Chip-n-Saw",
       "Pine Pulpwood", "Hardwood Pulpwood" >>

all_quarters == << "Q1", "Q2", "Q3", "Q4" >>

price_options == << "Minimum", "Average", "Maximum" >>

color_map ==
    [t \in Range(type_order) |->
        CASE t = "Pine Sawtimber"           -> "#D55E00"
          [] t = "Mixed Hardwood Sawtimber" -> "#009E73"
          [] t = "Pine Chip-n-Saw"          -> "#E69F00"
          [] t = "Pine Pulpwood"            -> "#0072B2"
          [] t = "Hardwood Pulpwood"        -> "#CC79A7"]

symbol_map ==
    [t \in Range(type_order) |->
        CASE t = "Pine Sawtimber"           -> "circle"
          [] t = "Mixed Hardwood Sawtimber" -> "square"
          [] t = "Pine Chip-n-Saw"          -> "diamond"
          [] t = "Pine Pulpwood"            -> "triangle-up"
          [] t = "Hardwood Pulpwood"        -> "triangle-down"]

\* The names the module binds at its top: import streamlit as st, pandas as pd,
\* plotly.graph_objects as go.
ModuleGlobals == {"st", "pd", "go"}

(***************************************************************************)
(* The remote CSV: the fixed schema and a pool of rows to draw it from.    *)
(***************************************************************************)
FullSchema == << "Type", "Time", "Year", "Quarter", "Minimum", "Average", "Maximum" >>

\* The same file without its Maximum column.
ShortSchema == << "Type", "Time", "Year", "Quarter", "Minimum", "Average" >>

\* A CSV row.  Year is the cell's text; Time is the period's compact label,
\* "<Year>-Q<n>" ("-" is 45, "Q" is 81, "0" is 48).
CsvRow(type, yearText, q, lo, avg, hi) ==
    [ Type |-> type, Time |-> yearText \o <<45, 81, 48 + q>>, Year |-> yearText,
      Quarter |-> all_quarters[q], Minimum |-> lo, Average |-> avg, Maximum |-> hi ]

\* Year cells: two years whose texts differ in length, and a cell that is
\* not a number.
Text99  == <<57, 57>>          \* "99"
Text100 == <<49, 48, 48>>      \* "100"
TextNA  == <<110, 47, 97>>     \* "n/a"

RowPool ==
    { CsvRow("Pine Pulpwood",  Text100, 1, 8, 9, 10),
      CsvRow("Pine Sawtimber", Text99,  4, 20, 25, 30),
      CsvRow("Pine Sawtimber", Text100, 1, 21, 26, 31),
      CsvRow("Pine Sawtimber", TextNA,  2, 22, 27, 32),
      CsvRow("Cypress",        Text99,  4, 40, 45, 50) }

RowSeqs == UNION { [1..n -> RowPool] : n \in 0..MaxRows }

\* A DataFrame: its columns in order and its rows.
Frame(cols, rows) == [columns |-> cols, rows |-> rows]

\* Files of the full schema, and one-row files of the short one.
CsvFiles ==
    { Frame(FullSchema, rows) : rows \in RowSeqs }
        \cup { Frame(ShortSchema, <<r>>) : r \in RowPool }

\* pd.DataFrame()
EmptyFrame == Frame(<< >>, << >>)

HttpStatuses == {"200", "404", "unreachable"}

\* What a GET of GITHUB_RAW_URL would meet.  (The optional GITHUB_TOKEN only
\* adds a request header.)
Remotes == [ status : HttpStatuses, csv : CsvFiles ]


(***************************************************************************)
(* Data Source Loader: load_stumpage and its memo.                         *)
(***************************************************************************)
\* The exception the body of load_stumpage raises inside its try, or "none".
\* requests and io are looked up in the module's globals when their line runs;
\* raise_for_status raises unless the answer is a 200.
LoadException(r) ==
    IF "requests" \notin ModuleGlobals THEN "NameError"
    ELSE IF r.status = "unreachable" THEN "ConnectionError"
    ELSE IF r.status # "200" THEN "HTTPError"
    ELSE IF "io" \notin ModuleGlobals THEN "NameError"
    ELSE "none"

\* What one execution of the body returns, with the st.error / st.exception
\* elements it emitted (the memo replays them on a later hit).
load_stumpage(r) ==
    LET e == LoadException(r)
    IN  IF e = "none"
        THEN [value |-> r.csv, banner |-> "none"]
        ELSE [value |-> EmptyFrame, banner |-> e]

\* The decorator left out: every call executes the body.
MemoNever(c) == FALSE
\* @st.cache_data: a call with a memoized value does not execute the body.
Memoized(c) == c # None

(***************************************************************************)
(* Lines 44-55 and 121-125: coercions and the widgets' ranges.             *)
(***************************************************************************)
HasColumn(frame, c) == \E i \in 1..Len(frame.columns) : frame.columns[i] = c

\* pd.Categorical(values, categories=type_order): a value outside the
\* categories becomes missing.
NoCategory == "<NA>"
AsCategory(t) == IF t \in Range(type_order) THEN t ELSE NoCategory

\* stumpage after lines 45 and 55 (both columns present).
Coerce(frame) ==
    Frame(frame.columns,
          [i \in 1..Len(frame.rows) |->
              [frame.rows[i] EXCEPT !.Year = ToNumeric(@), !.Type = AsCategory(@)]])

\* The Year values min() and max() see: missing ones are skipped.
Years(st) == {st.rows[i].Year.val : i \in {j \in 1..Len(st.rows) : ~st.rows[j].Year.nan}}

SetMin(S) == CHOOSE x \in S : \A y \in S : x <= y
SetMax(S) == CHOOSE x \in S : \A y \in S : x >= y

\* [t for t in type_order if t in stumpage["Type"].unique()]
TypePresent(rows, t) == \E i \in 1..Len(rows) : rows[i].Type = t
AllTypes(st) == SelectSeq(type_order, LAMBDA t : TypePresent(st.rows, t))

(***************************************************************************)
(* Filter & Projection Pipeline: get_filtered_data.                        *)
(***************************************************************************)
\* "and" written for the first "or".
InsufficientBoth(types, quarters, yr) == (types = {} /\ quarters = {}) \/ yr = None
\* Line 201: not selected_types or not selected_quarters or year_range is None.
InsufficientSelection(types, quarters, yr) == types = {} \/ quarters = {} \/ yr = None

\* The mask without its line 209.
RowMaskNoUpper(r, types, quarters, yr) ==
    /\ r.Type \in types
    /\ ~r.Year.nan /\ r.Year.val >= yr[1]
    /\ r.Quarter \in quarters
\* The boolean mask of lines 206-211; a comparison with NaN is False.
RowMask(r, types, quarters, yr) ==
    /\ r.Type \in types
    /\ ~r.Year.nan /\ r.Year.val >= yr[1]
    /\ ~r.Year.nan /\ r.Year.val <= yr[2]
    /\ r.Quarter \in quarters

\* The filtered copy; its Time column is made an ordered categorical whose
\* categories are sorted(data["Time"].unique()).
get_filtered_data(st, types, quarters, yr) ==
    IF InsufficientSelection(types, quarters, yr) THEN None
    ELSE LET rows == SelectSeq(st.rows, LAMBDA r : RowMask(r, types, quarters, yr))
         IN  Some([ columns |-> st.columns, rows |-> rows,
                    time_categories |->
                        IF HasColumn(st, "Time")
                        THEN Sorted({rows[i].Time : i \in 1..Len(rows)})
                        ELSE << >> ])

(***************************************************************************)
(* Chart Renderer: one go.Scatter per Type present in the data.            *)
(***************************************************************************)
\* The position of a label in the Time column's categories.
RECURSIVE IndexOf(_, _)
IndexOf(seq, x) == IF Head(seq) = x THEN 1 ELSE 1 + IndexOf(Tail(seq), x)

\* rows.sort_values("Time"): by category position (rows that tie carry the
\* same label; they are kept in their order).
RECURSIVE SortByTime(_, _)
SortByTime(rows, cats) ==
    IF cats = << >> THEN << >>
    ELSE SelectSeq(rows, LAMBDA r : r.Time = Head(cats)) \o SortByTime(rows, Tail(cats))

PriceOf(r, kind) ==
    CASE kind = "Minimum" -> r.Minimum
      [] kind = "Average" -> r.Average
      [] kind = "Maximum" -> r.Maximum

\* The keyword arguments of the go.Scatter call of lines 268-286.  No color
\* is among them: marker has size and symbol, line has width.
Scatter(df_t, t, kind) ==
    [ name |-> t,
      x |-> [i \in 1..Len(df_t) |-> df_t[i].Time],
      y |-> [i \in 1..Len(df_t) |-> PriceOf(df_t[i], kind)],
      marker_symbol |-> symbol_map[t],
      marker_color |-> None,
      line_color |-> None,
      customdata |-> df_t ]

\* The loop of lines 262-286 over data["Type"].cat.categories.
RECURSIVE Traces(_, _, _)
Traces(data, cats, kind) ==
    IF cats = << >> THEN << >>
    ELSE LET t == Head(cats)
             rest == Traces(data, Tail(cats), kind)
         IN  IF ~TypePresent(data.rows, t) THEN rest
             ELSE <<Scatter(SortByTime(SelectSeq(data.rows, LAMBDA r : r.Type = t),
                                       data.time_categories), t, kind)>> \o rest

\* cats[::4]
EveryFourth(cats) == [i \in 1..((Len(cats) + 3) \div 4) |-> cats[4 * (i - 1) + 1]]

Figure(data, kind) ==
    [ traces |-> Traces(data, type_order, kind),
      tickvals |-> EveryFourth(data.time_categories) ]

(***************************************************************************)
(* Export: data.to_csv(index=False).                                       *)
(***************************************************************************)
RECURSIVE Digits(_)
Digits(n) == IF n < 10 THEN <<48 + n>> ELSE Digits(n \div 10) \o <<48 + (n % 10)>>

\* A float64 column is written with its fraction ("100.0"; "." is 46).
FloatText(n) == Digits(n) \o <<46, 48>>

\* Year is a float64 column when to_numeric left a NaN in it, int64 otherwise.
YearIsFloat(st) == \E i \in 1..Len(st.rows) : st.rows[i].Year.nan

CsvCell(r, c, floatYear) ==
    CASE c = "Type"    -> r.Type
      [] c = "Time"    -> r.Time
      [] c = "Year"    -> IF floatYear THEN FloatText(r.Year.val) ELSE Digits(r.Year.val)
      [] c = "Quarter" -> r.Quarter
      [] c = "Minimum" -> Digits(r.Minimum)
      [] c = "Average" -> Digits(r.Average)
      [] c = "Maximum" -> Digits(r.Maximum)

to_csv(data, floatYear) ==
    [ header |-> data.columns,
      lines |-> [i \in 1..Len(data.rows) |->
                    [k \in 1..Len(data.columns) |->
                        CsvCell(data.rows[i], data.columns[k], floatYear)]] ]

\* Any table at all is offered.
OffersAnyTable(data) == data # None
\* Line 337: data is not None and data.shape[0] > 0.
OffersDownload(data) == data # None /\ Len(Get(data).rows) > 0

(***************************************************************************)
(* One run of the script, top to bottom.                                   *)
(***************************************************************************)
DefaultWidgets == [price |-> "Average", types |-> {}, quarters |-> {}, year |-> None]

\* Nothing has run yet.
NoRun ==
    [ status |-> "init", error |-> "none", banner |-> "none", stumpage |-> EmptyFrame,
      min_year |-> 0, max_year |-> 0, all_types |-> << >>, clicked |-> FALSE,
      price_selector |-> "Average", selected_types |-> {}, selected_quarters |-> {},
      year_range |-> None, data |-> None, message |-> FALSE, schema_error |-> FALSE,
      fig |-> None, download |-> None ]

\* An exception nothing catches ends the run where it is raised.
Uncaught(memo, e) ==
    [NoRun EXCEPT !.status = "crashed", !.error = e, !.banner = memo.banner]

\* Lines 159-162: the keys the button sets when it was clicked.
ClearAll(ss, clicked, min_year, max_year) ==
    IF clicked
    THEN Some([ selected_types |-> {}, selected_quarters |-> {},
                year_range |-> <<min_year, max_year>> ])
    ELSE ss

\* Lines 165-167: st.session_state.get(key, widget value).
Rebind(ss, key, widgetValue) ==
    IF ss = None THEN widgetValue
    ELSE CASE key = "selected_types"    -> Get(ss).selected_types
           [] key = "selected_quarters" -> Get(ss).selected_quarters
           [] key = "year_range"        -> Get(ss).year_range

\* Lines 225-344, given the value line 220 bound to data.
Page(memo, st, min_year, max_year, clicked, price, types, quarters, yr, data) ==
    LET empty == data = None \/ Len(Get(data).rows) = 0
        found == HasColumn(st, price)
    IN  [ status |-> "done", error |-> "none", banner |-> memo.banner, stumpage |-> st,
          min_year |-> min_year, max_year |-> max_year, all_types |-> AllTypes(st),
          clicked |-> clicked, price_selector |-> price, selected_types |-> types,
          selected_quarters |-> quarters, year_range |-> yr, data |-> data,
          message |-> empty,
          schema_error |-> ~empty /\ ~found,
          fig |-> IF ~empty /\ found THEN Some(Figure(Get(data), price)) ELSE None,
          download |-> IF OffersDownload(data)
                       THEN Some(to_csv(Get(data), YearIsFloat(st)))
                       ELSE None ]

\* Lines 220-344, given the stumpage table and the names bound by line 167.
Display(memo, st, min_year, max_year, clicked, price, types, quarters, yr) ==
    Page(memo, st, min_year, max_year, clicked, price, types, quarters, yr,
         get_filtered_data(st, types, quarters, yr))

\* Lines 121-344, given stumpage as lines 45 and 55 left it.
Body(memo, st, w, ss, clicked) ==
    IF Years(st) = {}
    THEN [run |-> Uncaught(memo, "ValueError"), session_state |-> ss]
    ELSE LET min_year == SetMin(Years(st))
             max_year == SetMax(Years(st))
             slider == IF w.year = None THEN <<min_year, max_year>> ELSE w.year
             ss1 == ClearAll(ss, clicked, min_year, max_year)
         IN  [ run |-> Display(memo, st, min_year, max_year, clicked, w.price,
                               Rebind(ss1, "selected_types", w.types),
                               Rebind(ss1, "selected_quarters", w.quarters),
                               Rebind(ss1, "year_range", slider)),
               session_state |-> ss1 ]

\* The script from line 44 on, given what load_stumpage() returned, what the
\* widgets hold, st.session_state, and whether "Clear All" was just clicked.
Script(memo, w, ss, clicked) ==
    IF ~HasColumn(memo.value, "Year") \/ ~HasColumn(memo.value, "Type")
    THEN [run |-> Uncaught(memo, "KeyError"), session_state |-> ss]
    ELSE Body(memo, Coerce(memo.value), w, ss, clicked)

\* A script run: line 42 through the memo, then the rest.
ScriptRun(w, ss, clicked) ==
    \E memo \in {IF Memoized(cache) THEN Get(cache) ELSE load_stumpage(remote)} :
    \E r \in {Script(memo, w, ss, clicked)} :
        /\ cache' = Some(memo)
        /\ body_runs' = IF Memoized(cache) THEN body_runs ELSE body_runs + 1
        /\ cache_hit' = Memoized(cache)
        /\ widgets' = w
        /\ session_state' = r.session_state
        /\ run' = r.run
        /\ UNCHANGED remote

(***************************************************************************)
(* Interactions.  The widgets exist only on a page whose run completed.    *)
(***************************************************************************)
OpenPage ==
    /\ run.status = "init"
    /\ ScriptRun(widgets, session_state, FALSE)

\* The same session runs the script again with nothing changed.
Rerun ==
    /\ run.status # "init"
    /\ ScriptRun(widgets, session_state, FALSE)

\* The browser reloads the page: a new session, the process and its memo kept.
ReloadPage ==
    /\ run.status # "init"
    /\ ScriptRun(DefaultWidgets, None, FALSE)

SelectPrice ==
    /\ run.status = "done"
    /\ \E p \in Range(price_options) :
          /\ p # widgets.price
          /\ ScriptRun([widgets EXCEPT !.price = p], session_state, FALSE)

\* A multiselect changes by one option at a time: picked, or taken out.
Toggle(S, x) == IF x \in S THEN S \ {x} ELSE S \cup {x}

SelectTypes ==
    /\ run.status = "done"
    /\ \E t \in Range(run.all_types) :
          ScriptRun([widgets EXCEPT !.types = Toggle(@, t)], session_state, FALSE)

SelectQuarters ==
    /\ run.status = "done"
    /\ \E q \in Range(all_quarters) :
          ScriptRun([widgets EXCEPT !.quarters = Toggle(@, q)], session_state, FALSE)

MoveSlider ==
    /\ run.status = "done"
    /\ \E lo \in run.min_year..run.max_year, hi \in run.min_year..run.max_year :
          /\ lo <= hi
          /\ widgets.year # <<lo, hi>>
          /\ ScriptRun([widgets EXCEPT !.year = <<lo, hi>>], session_state, FALSE)

ClickClearAll ==
    /\ run.status = "done"
    /\ ScriptRun(widgets, session_state, TRUE)

(***************************************************************************)
(* The program as written, from a fresh process.                           *)
(***************************************************************************)
Init ==
    /\ remote \in Remotes
    /\ cache = None
    /\ body_runs = 0
    /\ cache_hit = FALSE
    /\ widgets = DefaultWidgets
    /\ session_state = None
    /\ run = NoRun

Next == OpenPage \/ Rerun \/ ReloadPage

Spec == Init /\ [][Next]_vars

(***************************************************************************)
(* The render cycle over a table held by the memo: every value that line   *)
(* 32 can return for a CSV of the pool.                                    *)
(***************************************************************************)
InitLoaded ==
    /\ remote \in {r \in Remotes : r.status = "200"}
    /\ cache = Some([value |-> remote.csv, banner |-> "none"])
    /\ body_runs = 1
    /\ cache_hit = FALSE
    /\ widgets = DefaultWidgets
    /\ session_state = None
    /\ run = NoRun

NextLoaded ==
    \/ Next
    \/ SelectPrice
    \/ SelectTypes
    \/ SelectQuarters
    \/ MoveSlider
    \/ ClickClearAll

SpecLoaded == InitLoaded /\ [][NextLoaded]_vars

(***************************************************************************)
(* Properties.                                                             *)
(***************************************************************************)
Done == run.status = "done"

\* C1: whenever selected-types or selected-quarters is empty, whatever the
\* price-kind and the year-range, get_filtered_data returns None, not a table.
C1_EmptySelectionIsUndefined ==
    Done => ((run.selected_types = {} \/ run.selected_quarters = {}) => run.data = None)

\* Quarters are selected, no type is, the price-kind and the slider were moved
\* off their defaults, and the pipeline returned None.
C1_Witness ==
    /\ Done
    /\ run.selected_types = {}
    /\ run.selected_quarters # {}
    /\ run.price_selector = "Minimum"
    /\ widgets.year # None
    /\ run.data = None

ValidSelection ==
    /\ run.selected_types # {}
    /\ run.selected_quarters # {}
    /\ run.year_range # None
    /\ run.year_range[1] <= run.year_range[2]

Satisfies(r) ==
    /\ r.Type \in run.selected_types
    /\ r.Quarter \in run.selected_quarters
    /\ ~r.Year.nan
    /\ run.year_range[1] <= r.Year.val
    /\ r.Year.val <= run.year_range[2]

\* C2: for a valid Selection the FilteredView holds exactly the records with
\* Type in selected-types, Quarter in selected-quarters and
\* year-min <= Year <= year-max: none that violates a condition (a record
\* whose Year is missing included), none that satisfies all three dropped.
C2_FilteredViewIsExact ==
    (Done /\ ValidSelection) =>
        /\ run.data # None
        /\ \A i \in 1..Len(Get(run.data).rows) : Satisfies(Get(run.data).rows[i])
        /\ Get(run.data).rows = SelectSeq(run.stumpage.rows, Satisfies)

\* A valid Selection kept one record, left out one of a selected Type and
\* Quarter whose Year is missing, and left out one for its Year alone.
C2_Witness ==
    /\ Done
    /\ ValidSelection
    /\ run.data # None
    /\ Len(Get(run.data).rows) >= 1
    /\ \E i \in 1..Len(run.stumpage.rows) :
          LET r == run.stumpage.rows[i]
          IN  /\ r.Type \in run.selected_types
              /\ r.Quarter \in run.selected_quarters
              /\ \/ r.Year.nan
                 \/ r.Year.val > run.year_range[2]

QuarterNumber(q) == IndexOf(all_quarters, q)

\* The period of r is not later than the period of s.
NotLater(r, s) ==
    \/ r.Year.val < s.Year.val
    \/ r.Year.val = s.Year.val /\ QuarterNumber(r.Quarter) <= QuarterNumber(s.Quarter)

\* C3: within every drawn series, consecutive points are in chronological
\* (Year, Quarter) order: the first's period is not later than the second's.
C3_SeriesAreChronological ==
    (Done /\ run.fig # None) =>
        \A k \in 1..Len(Get(run.fig).traces) :
            LET df_t == Get(run.fig).traces[k].customdata
            IN  \A i \in 1..(Len(df_t) - 1) : NotLater(df_t[i], df_t[i + 1])

\* C4: the run that "Clear All" triggers uses the Selection of a freshly
\* loaded session in all four fields: Average, no types, no quarters, the
\* full observed span of years.
C4_ResetRestoresDefaults ==
    (Done /\ run.clicked) =>
        /\ run.price_selector = "Average"
        /\ run.selected_types = {}
        /\ run.selected_quarters = {}
        /\ run.year_range = <<run.min_year, run.max_year>>

\* What the slider holds: its default until it is moved.
SliderValue == IF widgets.year = None THEN <<run.min_year, run.max_year>> ELSE widgets.year

\* C5: in every render cycle that a control change or a rerun triggers, a
\* reset having happened before or not, the types, quarters and year range
\* the filter pipeline uses are the ones the multiselects and the slider hold.
C5_PipelineUsesTheControls ==
    (Done /\ ~run.clicked) =>
        /\ run.selected_types = widgets.types
        /\ run.selected_quarters = widgets.quarters
        /\ run.year_range = SliderValue

LoadFailed == cache # None /\ Get(cache).banner # "none"

\* C6: when the load fails the loader yields the empty Dataset and the run
\* does not crash: it completes and shows the "no data" message.
C6_LoadFailureDegrades ==
    (run.status # "init" /\ LoadFailed) =>
        /\ Get(cache).value = EmptyFrame
        /\ run.status = "done"
        /\ run.error = "none"
        /\ run.message

\* C7: when the remote answers 200 with a CSV of the fixed schema that has
\* records, load_stumpage returns those records, not the empty Dataset.
C7_SuccessfulFetchIsLoaded ==
    (/\ run.status # "init"
     /\ remote.status = "200"
     /\ remote.csv.columns = FullSchema
     /\ remote.csv.rows # << >>) =>
        /\ cache # None
        /\ Get(cache).value = remote.csv
        /\ Get(cache).banner = "none"

\* The Types with a record in the view, in the fixed category order.
TypesInView == SelectSeq(type_order, LAMBDA t : TypePresent(Get(run.data).rows, t))

\* C8: the figure has exactly one series per Type with a record in the view,
\* in the fixed category order, each with its category's color and marker.
C8_OneStyledSeriesPerType ==
    (Done /\ run.fig # None) =>
        LET traces == Get(run.fig).traces
        IN  /\ [k \in 1..Len(traces) |-> traces[k].name] = TypesInView
            /\ \A k \in 1..Len(traces) :
                  /\ traces[k].marker_symbol = symbol_map[traces[k].name]
                  /\ traces[k].marker_color = Some(color_map[traces[k].name])
                  /\ traces[k].line_color = Some(color_map[traces[k].name])

\* C9: the download is offered only for a table with at least one row, and
\* its bytes are the serialization of this cycle's FilteredView.
C9_ExportOnlyOfNonEmptyView ==
    run.download # None =>
        /\ run.data # None
        /\ Len(Get(run.data).rows) > 0
        /\ Get(run.data).rows = SelectSeq(run.stumpage.rows, Satisfies)
        /\ Get(run.download).header = run.stumpage.columns
        /\ Len(Get(run.download).lines) = Len(Get(run.data).rows)
        /\ Get(run.download) = to_csv(Get(run.data), YearIsFloat(run.stumpage))

\* A download of two records is offered.
C9_Witness ==
    /\ Done
    /\ run.download # None
    /\ Len(Get(run.download).lines) = 2

\* C10: the body of load_stumpage executes at most once; from the first
\* cycle on its result is memoized and every later cycle reuses it.
C10_FetchAtMostOnce ==
    /\ body_runs <= 1
    /\ run.status # "init" => (cache # None /\ body_runs = 1)
    /\ cache_hit => body_runs = 1

\* A later cycle reused the memoized empty Dataset of a failed first load.
C10_Witness ==
    /\ cache_hit
    /\ body_runs = 1
    /\ LoadFailed
    /\ Get(cache).value = EmptyFrame
=============================================================================
